---- MODULE Spec2Model ----
(***************************************************************************)
(* Page replacement simulator: AbstractPageReplacement (CleanRefString,    *)
(* GenerateRefString, FindInContainer), the FIFO, LRU and OPT policies of  *)
(* PageReplacement.h, and the MainWindow slots that call them.             *)
(***************************************************************************)
EXTENDS Integers, Sequences, FiniteSets, TLC

\* ------------------------------------------------------------------ bounds

\* longest reference string typed into the text box (besides Scenario)
MaxLen == 4
\* page ids typed into the text box are 0..MaxPageId (besides Scenario)
MaxPageId == 2
\* rand() yields 0..MaxRand
MaxRand == 3
\* the size argument of GenerateRefString is 0..MaxSize
MaxSize == 3
\* CleanRefString is called at most MaxCleanCalls times on one vector
MaxCleanCalls == 2
\* the side-by-side replay of LRU takes strings of up to InclusionLen requests
InclusionLen == 5
\* of the pages 0..InclusionPageId
InclusionPageId == 3

\* ------------------------------------------------------- program constants

\* ui->spinNumFrames->setRange(1, 7)
MinFrames == 1
MaxFrames == 7
\* ui->spinNumPages->setRange(0, 9)
MinPages == 0
MaxPages == 9

PageIds == 0..MaxPageId
\* the reference string of the specification's concrete scenario
Scenario == <<1, 2, 3, 1, 2, 4, 1, 2, 3>>
\* the reference strings the caller hands over (digits parsed from the text box)
RefStrings == UNION {[1..n -> PageIds] : n \in 0..MaxLen} \cup {Scenario}

Range(s) == {s[k] : k \in DOMAIN s}

\* a value that is no page id: what a storage cell outside the vector may hold
NoPage == 0 - 1

\* ------------------------------------------------------------- containers

\* AbstractPageReplacement::FindInContainer
FindInContainer(needle, haystack) == \E k \in DOMAIN haystack : haystack[k] = needle

\* std::vector::erase(it) for it inside the vector: the cells behind it move
\* one to the left; the cell of the old last element keeps its value
VectorErase(buf, size, it) ==
    [k \in DOMAIN buf |-> IF k >= it /\ k < size THEN buf[k + 1] ELSE buf[k]]

\* The loop of CleanRefString over the storage buf (the vector's cells followed
\* by the cell behind them), from iterator it (1 = begin(), size + 1 = end())
\* down to begin(). erase(end()) is undefined: eraseEnd is what the build makes
\* of it ("shrink": the size drops by one; "crash": the process dies).
RECURSIVE CleanLoop(_, _, _, _)
CleanLoop(buf, size, it, eraseEnd) ==
    IF it = 1 THEN [vec |-> SubSeq(buf, 1, size), crashed |-> FALSE]
    ELSE IF buf[it] = buf[it - 1]
         THEN IF it = size + 1
              THEN IF eraseEnd = "crash"
                   THEN [vec |-> SubSeq(buf, 1, size), crashed |-> TRUE]
                   ELSE CleanLoop(buf, size - 1, it - 1, eraseEnd)
              ELSE CleanLoop(VectorErase(buf, size, it), size - 1, it - 1, eraseEnd)
         ELSE CleanLoop(buf, size, it - 1, eraseEnd)

\* AbstractPageReplacement::CleanRefString. The first iteration reads *end():
\* pastEnd is the value found in the cell behind the last element.
CleanRefString(ref_string, pastEnd, eraseEnd) ==
    IF ref_string = <<>>
    THEN [vec |-> <<>>, crashed |-> FALSE]
    ELSE CleanLoop(ref_string \o <<pastEnd>>, Len(ref_string), Len(ref_string) + 1, eraseEnd)

\* what the cell behind the last element may hold
PastEndValues(ref_string) == PageIds \cup Range(ref_string) \cup {NoPage}
EraseEndOutcomes == {"shrink", "crash"}

\* ------------------------------------------------------------------- FIFO

\* FIFOIterate with a hit moving the requested page to the back of the queue
FIFOIterateMovesHit(current_pages, page_faults, x, num_frames_) ==
    IF ~FindInContainer(x, current_pages)
    THEN [current_pages |-> Append(IF Len(current_pages) = num_frames_
                                   THEN Tail(current_pages)
                                   ELSE current_pages, x),
          page_faults |-> page_faults + 1,
          ok |-> TRUE]
    ELSE [current_pages |-> Append(SelectSeq(current_pages, LAMBDA y : y # x), x),
          page_faults |-> page_faults,
          ok |-> TRUE]

\* FIFOIterate removing the page at the back of the queue (pop_back for pop_front)
FIFOIterateEvictsNewest(current_pages, page_faults, x, num_frames_) ==
    IF ~FindInContainer(x, current_pages)
    THEN [current_pages |-> Append(IF Len(current_pages) = num_frames_
                                   THEN SubSeq(current_pages, 1, Len(current_pages) - 1)
                                   ELSE current_pages, x),
          page_faults |-> page_faults + 1,
          ok |-> TRUE]
    ELSE [current_pages |-> current_pages, page_faults |-> page_faults, ok |-> TRUE]

\* one iteration of the loop of FIFOPageReplacement::CalculatePageFaults on the
\* request x: current_pages and page_faults after it
FIFOIterate(current_pages, page_faults, x, num_frames_) ==
    IF ~FindInContainer(x, current_pages)
    THEN [current_pages |-> Append(IF Len(current_pages) = num_frames_
                                   THEN Tail(current_pages)
                                   ELSE current_pages, x),
          page_faults |-> page_faults + 1,
          ok |-> TRUE]
    ELSE [current_pages |-> current_pages, page_faults |-> page_faults, ok |-> TRUE]

\* -------------------------------------------------------------------- LRU

\* A std::deque<int> as libstdc++ lays it out: cells mem, the elements are
\* mem[b] .. mem[e - 1]; an iterator is a cell index and keeps pointing at its
\* cell when the deque changes.
Deque(pages) == [mem |-> pages, b |-> 1, e |-> Len(pages) + 1]
DequePages(d) == SubSeq(d.mem, d.b, d.e - 1)

\* std::deque::push_back
DequePushBack(d, v) ==
    [mem |-> IF d.e > Len(d.mem) THEN Append(d.mem, v) ELSE [d.mem EXCEPT ![d.e] = v],
     b |-> d.b,
     e |-> d.e + 1]

\* std::deque::erase(j): the shorter side of the deque moves over the erased cell
DequeErase(d, j) ==
    IF j - d.b < (d.e - d.b) \div 2
    THEN [mem |-> [k \in DOMAIN d.mem |->
                     IF k > d.b /\ k <= j THEN d.mem[k - 1] ELSE d.mem[k]],
          b |-> d.b + 1,
          e |-> d.e]
    ELSE [mem |-> [k \in DOMAIN d.mem |->
                     IF k >= j /\ k < d.e - 1 THEN d.mem[k + 1] ELSE d.mem[k]],
          b |-> d.b,
          e |-> d.e - 1]

\* The inner loop of the hit path of LRUPageReplacement::CalculatePageFaults:
\* j walks the cells until it meets end(); a cell equal to the request x is
\* pushed to the back and erased while j stays on its cell. ok is FALSE when j
\* has passed end() or the loop has not ended after fuel iterations.
RECURSIVE LRUHitLoop(_, _, _, _)
LRUHitLoop(d, j, x, fuel) ==
    IF j = d.e THEN [pages |-> DequePages(d), ok |-> TRUE]
    ELSE IF fuel = 0 \/ j > d.e \/ j > Len(d.mem) THEN [pages |-> DequePages(d), ok |-> FALSE]
    ELSE IF d.mem[j] = x
         THEN LRUHitLoop(DequeErase(DequePushBack(d, d.mem[j]), j), j + 1, x, fuel - 1)
         ELSE LRUHitLoop(d, j + 1, x, fuel - 1)

\* LRUIterate with a hit leaving the queue as it is
LRUIterateKeepsOrder(current_pages, page_faults, x, num_frames_) ==
    IF ~FindInContainer(x, current_pages)
    THEN [current_pages |-> Append(IF Len(current_pages) = num_frames_
                                   THEN Tail(current_pages)
                                   ELSE current_pages, x),
          page_faults |-> page_faults + 1,
          ok |-> TRUE]
    ELSE [current_pages |-> current_pages, page_faults |-> page_faults, ok |-> TRUE]

\* LRUIterate with a hit pushing the copy to the back without erasing the old entry
LRUIteratePushOnly(current_pages, page_faults, x, num_frames_) ==
    IF ~FindInContainer(x, current_pages)
    THEN [current_pages |-> Append(IF Len(current_pages) = num_frames_
                                   THEN Tail(current_pages)
                                   ELSE current_pages, x),
          page_faults |-> page_faults + 1,
          ok |-> TRUE]
    ELSE [current_pages |-> Append(current_pages, x), page_faults |-> page_faults, ok |-> TRUE]

\* one iteration of the loop of LRUPageReplacement::CalculatePageFaults
LRUIterate(current_pages, page_faults, x, num_frames_) ==
    IF ~FindInContainer(x, current_pages)
    THEN [current_pages |-> Append(IF Len(current_pages) = num_frames_
                                   THEN Tail(current_pages)
                                   ELSE current_pages, x),
          page_faults |-> page_faults + 1,
          ok |-> TRUE]
    ELSE LET r == LRUHitLoop(Deque(current_pages), 1, x, 2 * Len(current_pages) + 2)
         IN [current_pages |-> r.pages, page_faults |-> page_faults, ok |-> r.ok]

\* -------------------------------------------------------------------- OPT

\* the loop that fills uniqueMemoryStack: the resident pages in the order of
\* their first request from position j on
RECURSIVE UniqueMemoryStack(_, _, _, _)
UniqueMemoryStack(ref_string_, j, current_pages, stack) ==
    IF j > Len(ref_string_) THEN stack
    ELSE IF ~FindInContainer(ref_string_[j], current_pages)
         THEN UniqueMemoryStack(ref_string_, j + 1, current_pages, stack)
         ELSE IF ~FindInContainer(ref_string_[j], stack)
              THEN UniqueMemoryStack(ref_string_, j + 1, current_pages,
                                     Append(stack, ref_string_[j]))
              ELSE UniqueMemoryStack(ref_string_, j + 1, current_pages, stack)

\* erase(j); break; at the first cell of pages whose value is in victims
EraseFirstIn(pages, victims) ==
    IF \E k \in DOMAIN pages : pages[k] \in victims
    THEN LET j == CHOOSE k \in DOMAIN pages :
                     /\ pages[k] \in victims
                     /\ \A m \in 1..(k - 1) : pages[m] \notin victims
         IN SubSeq(pages, 1, j - 1) \o SubSeq(pages, j + 1, Len(pages))
    ELSE pages

\* OPTEvict removing the page at the bottom of the stack (the one requested
\* soonest) when every resident page is requested again
OPTEvictNearest(current_pages, stack, num_pages_) ==
    IF Len(stack) = num_pages_
    THEN IF current_pages = <<>> THEN current_pages
         ELSE EraseFirstIn(current_pages, {stack[1]})
    ELSE EraseFirstIn(current_pages, Range(current_pages) \ Range(stack))

\* the two removal loops of OPTPageReplacement::CalculatePageFaults
OPTEvict(current_pages, stack, num_pages_) ==
    IF Len(stack) = num_pages_
    THEN IF current_pages = <<>> THEN current_pages
         ELSE EraseFirstIn(current_pages, {stack[Len(stack)]})
    ELSE EraseFirstIn(current_pages, Range(current_pages) \ Range(stack))

\* one iteration of the loop of OPTPageReplacement::CalculatePageFaults at
\* position i of ref_string_
OPTIterate(current_pages, page_faults, ref_string_, i, num_pages_, num_frames_) ==
    LET x == ref_string_[i]
    IN IF Len(current_pages) = num_pages_ /\ ~FindInContainer(x, current_pages)
       THEN [current_pages |->
                 Append(OPTEvict(current_pages,
                                 UniqueMemoryStack(ref_string_, i, current_pages, <<>>),
                                 num_pages_), x),
             page_faults |-> page_faults + 1,
             ok |-> TRUE]
       ELSE IF Len(current_pages) # num_frames_ /\ ~FindInContainer(x, current_pages)
            THEN [current_pages |-> Append(current_pages, x),
                  page_faults |-> page_faults + 1,
                  ok |-> TRUE]
            ELSE [current_pages |-> current_pages, page_faults |-> page_faults, ok |-> TRUE]

\* ------------------------------------------------------- the three policies

\* ui->cmboAlgorithm->addItems(QStringList{"FIFO", "LRU", "OPT"})
Algorithms == {"FIFO", "LRU", "OPT"}

\* ui->cmboAlgorithm->currentIndex(): 0, 1 and 2 select FIFO, LRU and OPT; any
\* other value ("unknown") takes the default case of the switch
Selectors == Algorithms \cup {"unknown"}

\* what a call through the uninitialized pointer PageReplacement may do: the
\* process dies, or some code runs and an arbitrary count is reported
WildCallOutcomes == {"crash", "count"}
WildCounts == 0..MaxLen

\* the loop body of the CalculatePageFaults the object PageReplacement overrides
Iterate(alg, current_pages, page_faults, ref_string_, i, num_pages_, num_frames_) ==
    CASE alg = "FIFO" -> FIFOIterate(current_pages, page_faults, ref_string_[i], num_frames_)
      [] alg = "LRU" -> LRUIterate(current_pages, page_faults, ref_string_[i], num_frames_)
      [] alg = "OPT" -> OPTIterate(current_pages, page_faults, ref_string_, i,
                                   num_pages_, num_frames_)

\* CalculatePageFaults from position i on, with locals st
RECURSIVE Replay(_, _, _, _, _, _)
Replay(alg, ref_string_, num_pages_, num_frames_, i, st) ==
    IF i > Len(ref_string_) \/ ~st.ok THEN st.page_faults
    ELSE Replay(alg, ref_string_, num_pages_, num_frames_, i + 1,
                Iterate(alg, st.current_pages, st.page_faults, ref_string_, i,
                        num_pages_, num_frames_))

\* the value CalculatePageFaults returns for an object whose members are
\* ref_string_, num_pages_ and num_frames_
PageFaults(alg, ref_string_, num_pages_, num_frames_) ==
    Replay(alg, ref_string_, num_pages_, num_frames_, 1,
           [current_pages |-> <<>>, page_faults |-> 0, ok |-> TRUE])

\* ------------------------------------------------------ GenerateRefString

\* rand()
RandValues == 0..MaxRand

\* The values of `rand() % bound`. The remainder has the sign of the dividend,
\* so a negative divisor behaves like its absolute value. A zero divisor is
\* undefined: where the division does not trap, the expression yields the
\* dividend.
RandMod(bound) ==
    IF bound = 0 THEN RandValues
    ELSE {r % (IF bound < 0 THEN 0 - bound ELSE bound) : r \in RandValues}

\* whether `rand() % bound` kills the process (SIGFPE): a zero divisor may
DivisionTraps(bound) == IF bound = 0 THEN {TRUE, FALSE} ELSE {FALSE}

\* std::vector<int> ref_string(size)
ZeroVector(n) == [k \in 1..n |-> 0]

\* the arguments GenerateRefString is called with
Sizes == 0..MaxSize
UpperBounds == (0 - 1)..(MaxRand + 1)

\* ------------------------------------------------------------------ state

VARIABLES
    pc,              \* where the program is
    ref_string,      \* MainWindow::CalculatePageFaults: the parsed text box
    num_pages,       \* ui->spinNumPages->value()
    num_frames,      \* ui->spinNumFrames->value()
    alg,             \* ui->cmboAlgorithm: the class of *PageReplacement
    ref_string_,     \* AbstractPageReplacement::ref_string_
    num_pages_,      \* AbstractPageReplacement::num_pages_
    num_frames_,     \* AbstractPageReplacement::num_frames_
    current_pages,   \* CalculatePageFaults: the pages in memory
    page_faults,     \* CalculatePageFaults: the count
    i,               \* CalculatePageFaults: the iterator into ref_string_ (1 = begin())
    loaded_at,       \* history: for each resident page, the position of ref_string_
                     \* at whose request it was put into current_pages
    size,            \* GenerateRefString: size
    upper_bound,     \* GenerateRefString: upper_bound
    gen_ref_string,  \* GenerateRefString: ref_string
    gen_i,           \* GenerateRefString: i (0-based, as in the code)
    vec,             \* the vector a caller hands to CleanRefString
    vec_in,          \* vec as it was before the latest call
    calls            \* the calls of CleanRefString on vec so far

vars == <<pc, ref_string, num_pages, num_frames, alg, ref_string_, num_pages_,
          num_frames_, current_pages, page_faults, i, loaded_at, size,
          upper_bound, gen_ref_string, gen_i, vec, vec_in, calls>>

runVars == <<ref_string, num_pages, num_frames, alg, ref_string_, num_pages_,
             num_frames_, current_pages, page_faults, i, loaded_at>>
genVars == <<size, upper_bound, gen_ref_string, gen_i>>
cleanVars == <<vec, vec_in, calls>>

\* no page is resident
NothingLoaded == [p \in {} |-> 0]

\* nothing constructed, nothing generated, nothing cleaned yet
RunIdle ==
    /\ ref_string = <<>> /\ num_pages = 0 /\ num_frames = 0 /\ alg = "none"
    /\ ref_string_ = <<>> /\ num_pages_ = 0 /\ num_frames_ = 0
    /\ current_pages = <<>> /\ page_faults = 0 /\ i = 0 /\ loaded_at = NothingLoaded
GenIdle == size = 0 /\ upper_bound = 0 /\ gen_ref_string = <<>> /\ gen_i = 0
CleanIdle == vec = <<>> /\ vec_in = <<>> /\ calls = 0

\* the button "Calculate Page Faults" is clicked
InitRun ==
    /\ pc = "run"
    /\ ref_string \in RefStrings
    /\ num_pages \in MinPages..MaxPages
    /\ num_frames \in MinFrames..MaxFrames
    /\ alg \in Selectors
    /\ ref_string_ = <<>> /\ num_pages_ = 0 /\ num_frames_ = 0
    /\ current_pages = <<>> /\ page_faults = 0 /\ i = 0 /\ loaded_at = NothingLoaded
    /\ GenIdle /\ CleanIdle

\* GenerateRefString(size, upper_bound) is called
InitGenerate ==
    /\ pc = "generate"
    /\ size \in Sizes
    /\ upper_bound \in UpperBounds
    /\ gen_ref_string = <<>> /\ gen_i = 0
    /\ RunIdle /\ CleanIdle

\* a caller holds a vector it hands to CleanRefString
InitClean ==
    /\ pc = "clean"
    /\ vec \in RefStrings
    /\ vec_in = <<>> /\ calls = 0
    /\ RunIdle /\ GenIdle

Init == InitRun \/ InitGenerate \/ InitClean

\* --------------------------------------------- MainWindow::CalculatePageFaults

\* new FIFO/LRU/OPTPageReplacement(ref_string, num_pages, num_frames): the
\* constructor of AbstractPageReplacement copies and cleans the string
Construct ==
    /\ pc = "run" /\ alg \in Algorithms
    /\ \E pastEnd \in PastEndValues(ref_string), eraseEnd \in EraseEndOutcomes :
          LET r == CleanRefString(ref_string, pastEnd, eraseEnd)
          IN /\ ref_string_' = r.vec
             /\ pc' = IF r.crashed THEN "crashed" ELSE "constructed"
    /\ num_pages_' = num_pages
    /\ num_frames_' = num_frames
    /\ UNCHANGED <<ref_string, num_pages, num_frames, alg, current_pages, page_faults, i,
                   loaded_at>>
    /\ UNCHANGED <<genVars, cleanVars>>

\* default: break; no object is constructed and PageReplacement stays
\* uninitialized
DefaultCase ==
    /\ pc = "run" /\ alg \notin Algorithms
    /\ pc' = "no_object"
    /\ UNCHANGED <<runVars, genVars, cleanVars>>

\* int page_faults = PageReplacement->CalculatePageFaults(); through the
\* uninitialized pointer, and the message box that reports page_faults
WildCall ==
    /\ pc = "no_object"
    /\ \E outcome \in WildCallOutcomes, count \in WildCounts :
          IF outcome = "crash"
          THEN pc' = "crashed" /\ page_faults' = page_faults
          ELSE pc' = "reported" /\ page_faults' = count
    /\ UNCHANGED <<ref_string, num_pages, num_frames, alg, ref_string_, num_pages_,
                   num_frames_, current_pages, i, loaded_at>>
    /\ UNCHANGED <<genVars, cleanVars>>

\* Enter with the count starting at 1
EnterCountsFromOne ==
    /\ pc = "constructed"
    /\ current_pages' = <<>>
    /\ page_faults' = 1
    /\ i' = 1
    /\ loaded_at' = NothingLoaded
    /\ pc' = "loop"
    /\ UNCHANGED <<ref_string, num_pages, num_frames, alg, ref_string_, num_pages_, num_frames_>>
    /\ UNCHANGED <<genVars, cleanVars>>

\* PageReplacement->CalculatePageFaults() is entered: its locals are set up
Enter ==
    /\ pc = "constructed"
    /\ current_pages' = <<>>
    /\ page_faults' = 0
    /\ i' = 1
    /\ loaded_at' = NothingLoaded
    /\ pc' = "loop"
    /\ UNCHANGED <<ref_string, num_pages, num_frames, alg, ref_string_, num_pages_, num_frames_>>
    /\ UNCHANGED <<genVars, cleanVars>>

\* one iteration of the loop over ref_string_ with the locals becoming st
LoopStep(st) ==
    /\ current_pages' = st.current_pages
    /\ page_faults' = st.page_faults
    /\ i' = i + 1
    /\ loaded_at' = [p \in Range(st.current_pages) |->
                        IF p \in Range(current_pages) THEN loaded_at[p] ELSE i]
    /\ pc' = IF st.ok THEN "loop" ELSE "undefined"
    /\ UNCHANGED <<ref_string, num_pages, num_frames, alg, ref_string_, num_pages_, num_frames_>>
    /\ UNCHANGED <<genVars, cleanVars>>

FIFOLoop ==
    /\ pc = "loop" /\ alg = "FIFO" /\ i <= Len(ref_string_)
    /\ LoopStep(FIFOIterate(current_pages, page_faults, ref_string_[i], num_frames_))

LRULoop ==
    /\ pc = "loop" /\ alg = "LRU" /\ i <= Len(ref_string_)
    /\ LoopStep(LRUIterate(current_pages, page_faults, ref_string_[i], num_frames_))

OPTLoop ==
    /\ pc = "loop" /\ alg = "OPT" /\ i <= Len(ref_string_)
    /\ LoopStep(OPTIterate(current_pages, page_faults, ref_string_, i, num_pages_, num_frames_))

\* i == ref_string_.end(): return page_faults
Return ==
    /\ pc = "loop" /\ i > Len(ref_string_)
    /\ pc' = "done"
    /\ UNCHANGED <<runVars, genVars, cleanVars>>

\* ------------------------------------------------------ GenerateRefString

\* if (size == 0) return ref_string;
GenerateEmpty ==
    /\ pc = "generate" /\ size = 0
    /\ gen_ref_string' = ZeroVector(size)
    /\ pc' = "generated"
    /\ UNCHANGED <<size, upper_bound, gen_i, runVars, cleanVars>>

\* ref_string[0] = rand() % upper_bound; and the for loop starts at i = 1
GenerateFirst ==
    /\ pc = "generate" /\ size # 0
    /\ \E v \in RandMod(upper_bound), trap \in DivisionTraps(upper_bound) :
          IF trap
          THEN /\ pc' = "crashed"
               /\ gen_ref_string' = ZeroVector(size)
               /\ gen_i' = gen_i
          ELSE /\ pc' = "for"
               /\ gen_ref_string' = [ZeroVector(size) EXCEPT ![1] = v]
               /\ gen_i' = 1
    /\ UNCHANGED <<size, upper_bound, runVars, cleanVars>>

\* i < size: ref_string[i] = rand() % upper_bound;
GenerateDraw ==
    /\ pc = "for" /\ gen_i < size
    /\ \E v \in RandMod(upper_bound), trap \in DivisionTraps(upper_bound) :
          IF trap
          THEN pc' = "crashed" /\ gen_ref_string' = gen_ref_string
          ELSE pc' = "while" /\ gen_ref_string' = [gen_ref_string EXCEPT ![gen_i + 1] = v]
    /\ UNCHANGED <<size, upper_bound, gen_i, runVars, cleanVars>>

\* while (ref_string[i] == ref_string[i - 1]) ref_string[i] = rand() % upper_bound;
GenerateRedraw ==
    /\ pc = "while" /\ gen_ref_string[gen_i + 1] = gen_ref_string[gen_i]
    /\ \E v \in RandMod(upper_bound), trap \in DivisionTraps(upper_bound) :
          IF trap
          THEN pc' = "crashed" /\ gen_ref_string' = gen_ref_string
          ELSE pc' = "while" /\ gen_ref_string' = [gen_ref_string EXCEPT ![gen_i + 1] = v]
    /\ UNCHANGED <<size, upper_bound, gen_i, runVars, cleanVars>>

\* the while loop ends: ++i
GenerateNext ==
    /\ pc = "while" /\ gen_ref_string[gen_i + 1] # gen_ref_string[gen_i]
    /\ gen_i' = gen_i + 1
    /\ pc' = "for"
    /\ UNCHANGED <<size, upper_bound, gen_ref_string, runVars, cleanVars>>

\* i == size: return ref_string;
GenerateReturn ==
    /\ pc = "for" /\ gen_i >= size
    /\ pc' = "generated"
    /\ UNCHANGED <<genVars, runVars, cleanVars>>

\* --------------------------------------------------------- CleanRefString

\* AbstractPageReplacement::CleanRefString(vec)
Clean ==
    /\ pc = "clean" /\ calls < MaxCleanCalls
    /\ \E pastEnd \in PastEndValues(vec), eraseEnd \in EraseEndOutcomes :
          LET r == CleanRefString(vec, pastEnd, eraseEnd)
          IN /\ vec' = r.vec
             /\ pc' = IF r.crashed THEN "crashed" ELSE "clean"
    /\ vec_in' = vec
    /\ calls' = calls + 1
    /\ UNCHANGED <<runVars, genVars>>

Next ==
    \/ Construct \/ DefaultCase \/ WildCall \/ Enter \/ FIFOLoop \/ LRULoop \/ OPTLoop \/ Return
    \/ GenerateEmpty \/ GenerateFirst \/ GenerateDraw \/ GenerateRedraw
    \/ GenerateNext \/ GenerateReturn
    \/ Clean

Spec == Init /\ [][Next]_vars

\* ------------------------------------------------------------------ claims

\* one iteration of the replay loop has just been taken
ReplayStep == pc = "loop" /\ pc' = "loop" /\ i' = i + 1

\* the first element of each maximal run of equal adjacent values of s
RECURSIVE RunHeads(_)
RunHeads(s) ==
    IF Len(s) <= 1 THEN s
    ELSE LET front == RunHeads(SubSeq(s, 1, Len(s) - 1))
         IN IF s[Len(s)] = s[Len(s) - 1] THEN front ELSE Append(front, s[Len(s)])

NoAdjacentEqual(s) == \A k \in 1..(Len(s) - 1) : s[k] # s[k + 1]

\* C1: the count OPT returns is at most the count FIFO and LRU return for the
\* same ref_string_, num_pages_ and num_frames_.
\* Fails: OPT uses num_pages_ as its capacity when num_pages_ < num_frames_.
C1_OptIsOptimal ==
    (pc = "done" /\ alg = "OPT") =>
        /\ page_faults <= PageFaults("FIFO", ref_string_, num_pages_, num_frames_)
        /\ page_faults <= PageFaults("LRU", ref_string_, num_pages_, num_frames_)

\* C2: in every replay step of every policy, a request for a page that is not
\* resident adds exactly one fault and leaves the page resident; a request for
\* a resident page changes neither the count nor the set of resident pages.
\* Fails: OPT skips a miss when current_pages holds num_frames_ pages and
\* num_pages_ # num_frames_.
C2_HitMissAccounting ==
    [][ReplayStep =>
          IF ref_string_[i] \notin Range(current_pages)
          THEN /\ page_faults' = page_faults + 1
               /\ ref_string_[i] \in Range(current_pages')
          ELSE /\ page_faults' = page_faults
               /\ Range(current_pages') = Range(current_pages)]_vars

\* C3: the count a policy returns is the same for every num_pages in 0..9.
\* Fails: OPT compares the size of current_pages with num_pages_.
C3_NumPagesIrrelevant ==
    pc = "done" =>
        \A p \in MinPages..MaxPages :
            PageFaults(alg, ref_string_, p, num_frames_) = page_faults

\* C4: current_pages never holds more than num_frames_ pages, and a miss with
\* num_frames_ pages resident removes exactly one resident page and inserts
\* the requested one.
\* Fails: OPT with num_pages_ # num_frames_ removes and inserts nothing.
C4_CapacityInvariant ==
    [][ReplayStep =>
          /\ Len(current_pages') <= num_frames_
          /\ (Len(current_pages) = num_frames_ /\ ref_string_[i] \notin Range(current_pages)) =>
                /\ Len(current_pages') = num_frames_
                /\ \E victim \in Range(current_pages) :
                      Range(current_pages') =
                          (Range(current_pages) \ {victim}) \cup {ref_string_[i]}]_vars

\* C5: OPT returns 5 faults for Scenario with 3 frames, whatever num_pages is.
\* Fails: it returns 5 only when num_pages = 3.
C5_OptScenario ==
    (pc = "done" /\ alg = "OPT" /\ ref_string_ = Scenario /\ num_frames_ = 3) =>
        page_faults = 5

\* C6: for Scenario with 3 frames FIFO returns 7 faults and LRU returns 5.
C6_FifoLruScenario ==
    (pc = "done" /\ ref_string_ = Scenario /\ num_frames_ = 3) =>
        /\ alg = "FIFO" => page_faults = 7
        /\ alg = "LRU" => page_faults = 5

\* C6 witness: FIFO or LRU has returned from replaying Scenario with 3 frames
C6_Witness ==
    /\ pc = "done" /\ ref_string_ = Scenario /\ num_frames_ = 3
    /\ alg \in {"FIFO", "LRU"}
    /\ page_faults \in {5, 7}

\* C7: with one frame every policy returns the length of the sanitized string,
\* for every num_pages.
\* Fails: OPT with num_pages_ # 1 counts the first request only.
C7_CapacityOne ==
    (pc = "done" /\ num_frames_ = 1) =>
        /\ page_faults = Len(ref_string_)
        /\ \A a \in Algorithms :
              PageFaults(a, ref_string_, num_pages_, num_frames_) = Len(ref_string_)

\* C8: CleanRefString leaves in the vector the first element of each maximal
\* run of equal adjacent values of its input, with no two adjacent elements
\* equal, for every input.
\* Fails: the loop starts by reading the cell behind the last element and
\* erases end() when that cell equals the last element.
C8_CleanPostcondition ==
    calls >= 1 =>
        /\ pc = "clean"
        /\ vec = RunHeads(vec_in)
        /\ NoAdjacentEqual(vec)

\* C9: a second call of CleanRefString leaves the vector as the first call
\* left it.
\* Fails: the second call reads the cell behind the last element again.
C9_CleanIdempotent ==
    calls = 2 => (pc = "clean" /\ vec = vec_in)

\* C10: GenerateRefString with size > 0 and upper_bound <= 0 ends in the error
\* outcome InvalidRange without taking a remainder and without a sequence.
\* Fails: the code has no such check; it evaluates rand() % upper_bound.
C10_InvalidRange ==
    (size > 0 /\ upper_bound <= 0) => pc \in {"generate", "InvalidRange"}

\* C11: GenerateRefString with upper_bound = 1 and size > 1 reports
\* InvalidRange, and its redraw loop is never in a state no draw can leave.
\* Fails: the code draws rand() % 1 = 0 for both elements and redraws 0 forever.
C11_UnsatisfiableRange ==
    (size > 1 /\ upper_bound = 1) =>
        /\ pc \in {"generate", "InvalidRange"}
        /\ (pc = "while" /\ gen_ref_string[gen_i + 1] = gen_ref_string[gen_i]) =>
              \E v \in RandMod(upper_bound) : v # gen_ref_string[gen_i]

\* the sequence GenerateRefString has returned has the claimed shape
GeneratedShape ==
    /\ Len(gen_ref_string) = size
    /\ \A k \in DOMAIN gen_ref_string :
          0 <= gen_ref_string[k] /\ gen_ref_string[k] < upper_bound
    /\ NoAdjacentEqual(gen_ref_string)

\* C12: for upper_bound > 1 the returned sequence has length size, elements in
\* [0, upper_bound), no two adjacent elements equal, and CleanRefString leaves
\* it as it is.
\* Fails in its last part: CleanRefString reads the cell behind the last
\* element (C8) and may drop the last element or die.
C12_GeneratedShape ==
    (pc = "generated" /\ upper_bound > 1) =>
        /\ GeneratedShape
        /\ \A pastEnd \in PastEndValues(gen_ref_string), eraseEnd \in EraseEndOutcomes :
              CleanRefString(gen_ref_string, pastEnd, eraseEnd) =
                  [vec |-> gen_ref_string, crashed |-> FALSE]

\* C13: with a selector that is none of FIFO, LRU, OPT the driver ends in
\* UnsupportedPolicy before anything is replayed and reports no count; with
\* one of the three, the count reported is the one the selected policy computes.
\* Fails: the default case leaves PageReplacement uninitialized and the call
\* through it is made all the same.
C13_PolicyDispatch ==
    /\ alg = "unknown" => pc \in {"run", "no_object", "UnsupportedPolicy"}
    /\ (pc = "done" /\ alg \in Algorithms) =>
          page_faults = PageFaults(alg, ref_string_, num_pages_, num_frames_)

\* C14: for the empty reference string every policy returns 0 faults, for
\* every num_frames in 1..7 and num_pages in 0..9: the constructor leaves the
\* string empty without touching a cell, no page becomes resident and the
\* count stays 0.
C14_EmptyString ==
    (ref_string = <<>> /\ alg \in Algorithms) =>
        /\ pc \in {"run", "constructed", "loop", "done"}
        /\ ref_string_ = <<>>
        /\ current_pages = <<>>
        /\ page_faults = 0

\* C14 witness: OPT has returned from replaying the empty string
C14_Witness ==
    /\ pc = "done" /\ ref_string = <<>> /\ ref_string_ = <<>>
    /\ alg = "OPT" /\ num_pages_ = 0 /\ num_frames_ = 1
    /\ page_faults = 0

\* the page p is requested after position i of ref_string_
HasFutureUse(p) == \E k \in (i + 1)..Len(ref_string_) : ref_string_[k] = p
\* the first position after i at which p is requested
NextUse(p) ==
    CHOOSE k \in (i + 1)..Len(ref_string_) :
        /\ ref_string_[k] = p
        /\ \A m \in (i + 1)..(k - 1) : ref_string_[m] # p

\* C15: whenever a step of OPT removes a page from current_pages, it removes
\* exactly one, and that page is one that is not requested again if there is
\* such a resident page, and otherwise the resident page whose next request is
\* the latest.
C15_OptVictim ==
    [][(pc = "loop" /\ alg = "OPT" /\ i' = i + 1
            /\ Range(current_pages) \ Range(current_pages') # {}) =>
          \E v \in Range(current_pages) :
              /\ Range(current_pages) \ Range(current_pages') = {v}
              /\ IF \E p \in Range(current_pages) : ~HasFutureUse(p)
                 THEN ~HasFutureUse(v)
                 ELSE \A p \in Range(current_pages) : NextUse(p) <= NextUse(v)]_vars

\* C15 witness: OPT with two or more frames, all in use, and a page requested
\* earlier that is no longer resident
C15_Witness ==
    /\ pc = "loop" /\ alg = "OPT"
    /\ num_pages_ = num_frames_ /\ num_frames_ >= 2
    /\ Len(current_pages) = num_frames_
    /\ \E k \in 1..(i - 1) : ref_string_[k] \notin Range(current_pages)

\* the last position among the first n of ref_string_ at which p is requested
LastRef(p, n) ==
    CHOOSE k \in 1..n :
        /\ ref_string_[k] = p
        /\ \A m \in (k + 1)..n : ref_string_[m] # p
\* pages lists its pages in increasing order of their latest request among the
\* first n
RecencyOrdered(pages, n) ==
    \A a, b \in DOMAIN pages : a < b => LastRef(pages[a], n) < LastRef(pages[b], n)

\* C16: every step of LRU ends (the hit path's loop meets end()), and after
\* it current_pages lists the resident pages in increasing order of their
\* latest request with the page just requested at the tail; a hit leaves the
\* other pages in their previous order; a removed page is the head, the page
\* requested longest ago.
C16_LruRecency ==
    [][(pc = "loop" /\ alg = "LRU" /\ i' = i + 1) =>
          /\ pc' = "loop"
          /\ RecencyOrdered(current_pages', i)
          /\ current_pages'[Len(current_pages')] = ref_string_[i]
          /\ ref_string_[i] \in Range(current_pages) =>
                current_pages' =
                    Append(SelectSeq(current_pages, LAMBDA y : y # ref_string_[i]),
                           ref_string_[i])
          /\ Range(current_pages) \ Range(current_pages') # {} =>
                /\ Range(current_pages) \ Range(current_pages') = {Head(current_pages)}
                /\ \A p \in Range(current_pages) :
                      LastRef(Head(current_pages), i - 1) <= LastRef(p, i - 1)]_vars

\* C16 witness: LRU with three or more resident pages after a hit moved the
\* page just requested to the tail
C16_Witness ==
    /\ pc = "loop" /\ alg = "LRU" /\ i >= 3
    /\ Len(current_pages) >= 3
    /\ page_faults < i - 1
    /\ current_pages[Len(current_pages)] = ref_string_[i - 1]
    /\ \E k \in 1..(i - 2) : ref_string_[k] = ref_string_[i - 1]

\* C17: after every step of FIFO current_pages lists the resident pages in
\* the order in which they were put in; a hit leaves the queue as it is; a
\* removed page is the head, the page resident longest, however often it was
\* hit.
C17_FifoOrder ==
    [][(pc = "loop" /\ alg = "FIFO" /\ i' = i + 1) =>
          /\ \A a, b \in DOMAIN current_pages' :
                a < b => loaded_at'[current_pages'[a]] < loaded_at'[current_pages'[b]]
          /\ ref_string_[i] \in Range(current_pages) => current_pages' = current_pages
          /\ Range(current_pages) \ Range(current_pages') # {} =>
                /\ Range(current_pages) \ Range(current_pages') = {Head(current_pages)}
                /\ \A p \in Range(current_pages) :
                      loaded_at[Head(current_pages)] <= loaded_at[p]]_vars

\* C17 witness: FIFO has had a hit and, with two or more frames, has removed
\* a page
C17_Witness ==
    /\ pc = "loop" /\ alg = "FIFO"
    /\ Len(current_pages) >= 2
    /\ page_faults < i - 1
    /\ \E k \in 1..(i - 1) : ref_string_[k] \notin Range(current_pages)

\* The replay rules the three policies are meant to follow, applied to a
\* sequence s as it is, with capacity cap.
\* the page of res the rules remove at position k of s
RuleVictim(policy, res, s, k) ==
    IF policy \in {"FIFO", "LRU"} THEN Head(res)
    ELSE LET later(p) == {m \in (k + 1)..Len(s) : s[m] = p}
             first(p) == CHOOSE m \in later(p) : \A n \in later(p) : m <= n
         IN IF \E p \in Range(res) : later(p) = {}
            THEN CHOOSE p \in Range(res) : later(p) = {}
            ELSE CHOOSE p \in Range(res) : \A q \in Range(res) : first(q) <= first(p)

\* the resident pages after the request s[k]
RuleResidents(policy, res, s, k, cap) ==
    IF s[k] \in Range(res)
    THEN IF policy = "LRU"
         THEN Append(SelectSeq(res, LAMBDA y : y # s[k]), s[k])
         ELSE res
    ELSE IF Len(res) = cap
         THEN Append(SelectSeq(res, LAMBDA y : y # RuleVictim(policy, res, s, k)), s[k])
         ELSE Append(res, s[k])

RECURSIVE RuleReplay(_, _, _, _, _, _)
RuleReplay(policy, s, cap, k, res, faults) ==
    IF k > Len(s) THEN faults
    ELSE RuleReplay(policy, s, cap, k + 1, RuleResidents(policy, res, s, k, cap),
                    IF s[k] \in Range(res) THEN faults ELSE faults + 1)

\* the misses of replaying s itself under the rules of policy
RuleFaults(policy, s, cap) == RuleReplay(policy, s, cap, 1, <<>>, 0)

\* C18: the count a policy object returns for the caller's sequence equals
\* the misses of replaying that sequence itself, repeats included, under the
\* policy's rules.
\* Fails: the constructor's CleanRefString may drop the last element (C8), and
\* OPT's capacity is not num_frames_ (C3).
C18_SanitizingKeepsCount ==
    (pc = "done" /\ alg \in Algorithms) =>
        page_faults = RuleFaults(alg, ref_string, num_frames)

\* C19: the count each policy returns for ref_string_ is at least the number
\* of distinct pages in it and at most its length.
\* Fails: OPT with num_pages_ # num_frames_ stops counting once num_frames_
\* pages are resident (C3).
C19_FaultBounds ==
    (pc = "done" /\ alg \in Algorithms) =>
        /\ Cardinality(Range(ref_string_)) <= page_faults
        /\ page_faults <= Len(ref_string_)

NoDuplicates(pages) ==
    \A a, b \in DOMAIN pages : a # b => pages[a] # pages[b]

\* C20: in every state of a replay under FIFO, LRU and OPT no page occurs
\* twice in current_pages, and no step ends outside the loop.
C20_NoDuplicateResidents ==
    /\ pc # "undefined"
    /\ pc \in {"loop", "done"} => NoDuplicates(current_pages)

\* C20 witness: LRU after a hit, with two or more pages resident and the page
\* just requested at the tail
C20_Witness ==
    /\ pc = "loop" /\ alg = "LRU" /\ i >= 3
    /\ Len(current_pages) >= 2
    /\ ref_string_[i - 1] = current_pages[Len(current_pages)]
    /\ \E k \in 1..(i - 2) : ref_string_[k] = ref_string_[i - 1]
    /\ Cardinality(Range(current_pages)) = Len(current_pages)

\* the reference strings of the side-by-side replay: up to InclusionLen
\* requests of the pages 0..InclusionPageId
InclusionStrings == UNION {[1..n -> 0..InclusionPageId] : n \in 0..InclusionLen}

\* the button "Calculate Page Faults" is clicked with LRU selected
InitInclusion ==
    /\ pc = "run"
    /\ ref_string \in InclusionStrings
    /\ num_pages = InclusionPageId + 1
    /\ num_frames \in MinFrames..MaxFrames
    /\ alg = "LRU"
    /\ ref_string_ = <<>> /\ num_pages_ = 0 /\ num_frames_ = 0
    /\ current_pages = <<>> /\ page_faults = 0 /\ i = 0 /\ loaded_at = NothingLoaded
    /\ GenIdle /\ CleanIdle

NextInclusion == Construct \/ Enter \/ LRULoop \/ Return

SpecInclusion == InitInclusion /\ [][NextInclusion]_vars

\* the locals of LRUPageReplacement::CalculatePageFaults after the first n
\* requests of s with frames frames
RECURSIVE LRUAfter(_, _, _)
LRUAfter(s, n, frames) ==
    IF n = 0 THEN [current_pages |-> <<>>, page_faults |-> 0, ok |-> TRUE]
    ELSE LET st == LRUAfter(s, n - 1, frames)
         IN LRUIterate(st.current_pages, st.page_faults, s[n], frames)

\* the replay of ref_string_ under LRU with one frame more, as far as the
\* replay of the state has come
LRUOneMoreFrame == LRUAfter(ref_string_, i - 1, num_frames_ + 1)

\* C21: replaying ref_string_ under LRU with num_frames_ and with
\* num_frames_ + 1 frames side by side, after every step the pages resident
\* with num_frames_ frames are resident with num_frames_ + 1 frames too, and
\* the count with num_frames_ + 1 frames is at most the count with num_frames_.
C21_LruInclusion ==
    (pc \in {"loop", "done"} /\ alg = "LRU") =>
        /\ LRUOneMoreFrame.ok
        /\ Range(current_pages) \subseteq Range(LRUOneMoreFrame.current_pages)
        /\ LRUOneMoreFrame.page_faults <= page_faults

\* C21 witness: LRU with two or more frames has returned with more faults
\* than the replay with one frame more, which has removed a page as well
C21_Witness ==
    /\ pc = "done" /\ alg = "LRU" /\ num_frames_ >= 2
    /\ LRUOneMoreFrame.page_faults < page_faults
    /\ Len(LRUOneMoreFrame.current_pages) = num_frames_ + 1
    /\ \E k \in DOMAIN ref_string_ :
          ref_string_[k] \notin Range(LRUOneMoreFrame.current_pages)

====
